---- MODULE Spec2Model ----
(***************************************************************************)
(* fastgedcom: the line parser (fastgedcom/parser.py), the Line /          *)
(* Document data model (fastgedcom/base.py) and the family resolver        *)
(* (fastgedcom/family_link.py).                                            *)
(*                                                                         *)
(* A Python str is a sequence of one-character strings, so that rstrip,    *)
(* split, int() and str() are computed character by character.  A TrueLine *)
(* is an object of a heap keyed by the number of the input line that       *)
(* created it: parent_lines and sub_lines hold references, as the Python   *)
(* lists do.  The FakeLine singleton fake_line is the object at address 0. *)
(***************************************************************************)
EXTENDS Integers, Sequences, FiniteSets, TLC

VARIABLES
    lines,          \* the lines the iterable has yielded so far (without terminator)
    from_file,      \* TRUE: the iterable is a text file, each line ends with "\n"
    document,       \* Document: [records |-> insertion-ordered <<[key, val]>>]
    warnings,       \* list[ParsingWarning]
    line_number,    \* parse's counter
    parent_lines,   \* parse's stack of open ancestors (references)
    heap,           \* the Line objects: address -> object
    pc,             \* "loop" | "break" | "raised" | "returned" | "strict" | "read" | "parsed" | "built" | "called"
    strict_result,  \* what strict_parse did: "" | "Document" | "ParsingError" | "NothingParsed"
    chain,          \* the read operations applied so far to reach cur
    cur,            \* the Line (reference) a chain of reads currently holds
    parents,        \* FamilyLink.parents: insertion-ordered <<[key, val]>>, val = <<father, mother>>
    unions,         \* FamilyLink.unions: insertion-ordered <<[key, val]>>, val = list of records
    query           \* the last call on the FamilyLink: [op, args, outcome, value]

vars == <<lines, from_file, document, warnings, line_number, parent_lines,
          heap, pc, strict_result, chain, cur, parents, unions, query>>

-----------------------------------------------------------------------------
(* Bounds of the model *)

\* lines an input holds at most
MaxLines == 3
\* lines of a document the read operations are run on
MaxReadLines == 3
\* read operations chained after a Document lookup
MaxChain == 3
\* sub-lines of the first family record of a document
MaxFamLines == 3
\* ascent and descent of a traversal, degree of kinship
MaxDegree == 2
\* generation difference (either way) and collateral difference of get_relatives_ref
MaxGeneration == 1
MaxCollateral == 1

-----------------------------------------------------------------------------
(* Characters and strings *)

Digits == <<"0", "1", "2", "3", "4", "5", "6", "7", "8", "9">>

\* the characters str.rstrip() and int() strip (those of the model's alphabet)
Whitespace == {" ", "\n", "\t", "\r", "\f"}

IsDigit(c) == \E d \in 1..10 : Digits[d] = c

DigitValue(c) == (CHOOSE d \in 1..10 : Digits[d] = c) - 1

RECURSIVE Rstrip(_)
Rstrip(s) ==
    IF s # <<>> /\ s[Len(s)] \in Whitespace
    THEN Rstrip(SubSeq(s, 1, Len(s) - 1))
    ELSE s

\* index of the first " " of s, 0 when there is none
FirstSpace(s) ==
    IF \E i \in 1..Len(s) : s[i] = " "
    THEN CHOOSE i \in 1..Len(s) : s[i] = " " /\ \A j \in 1..(i - 1) : s[j] # " "
    ELSE 0

\* s.split(' ', maxsplit)
RECURSIVE Split(_, _)
Split(s, maxsplit) ==
    LET i == FirstSpace(s) IN
    IF maxsplit = 0 \/ i = 0
    THEN <<s>>
    ELSE <<SubSeq(s, 1, i - 1)>> \o Split(SubSeq(s, i + 1, Len(s)), maxsplit - 1)

RECURSIVE Lstrip(_)
Lstrip(s) == IF s # <<>> /\ s[1] \in Whitespace THEN Lstrip(Tail(s)) ELSE s

\* the literal int() reads: s stripped, without its sign
Unsigned(s) ==
    LET t == Lstrip(Rstrip(s)) IN
    IF t # <<>> /\ t[1] \in {"-", "+"} THEN Tail(t) ELSE t

\* whether int(s) succeeds: after stripping, an optional sign, then digits, where a
\* single "_" may stand between two digits; int() raises ValueError otherwise
IntParses(s) ==
    LET body == Unsigned(s) IN
    /\ body # <<>>
    /\ \A i \in 1..Len(body) :
          \/ IsDigit(body[i])
          \/ /\ body[i] = "_"
             /\ 1 < i /\ i < Len(body)
             /\ IsDigit(body[i - 1]) /\ IsDigit(body[i + 1])

RECURSIVE DecimalValue(_)
DecimalValue(ds) ==
    IF ds = <<>> THEN 0
    ELSE 10 * DecimalValue(SubSeq(ds, 1, Len(ds) - 1)) + DigitValue(ds[Len(ds)])

\* int(s), for s with IntParses(s)
Int_(s) ==
    LET t == Lstrip(Rstrip(s))
        v == DecimalValue(SelectSeq(Unsigned(s), IsDigit))
    IN IF t[1] = "-" THEN 0 - v ELSE v

RECURSIVE NatStr(_)
NatStr(n) ==
    IF n < 10 THEN <<Digits[n + 1]>>
    ELSE NatStr(n \div 10) \o <<Digits[(n % 10) + 1]>>

\* str(n) of an int, as the f-string of TrueLine.__str__ renders the level
Str(n) == IF n < 0 THEN <<"-">> \o NatStr(0 - n) ELSE NatStr(n)

-----------------------------------------------------------------------------
(* base.py: Line, FakeLine, TrueLine, Document *)

\* the address of the FakeLine singleton
fake_line == 0

FakeLine == [class |-> "FakeLine", payload |-> <<>>, sub_lines |-> <<>>]

TrueLine(level, tag, payload, sub_lines) ==
    [class |-> "TrueLine", level |-> level, tag |-> tag,
     payload |-> payload, sub_lines |-> sub_lines]

\* Line.__bool__
Bool(h, ref) == h[ref].class = "TrueLine"

\* the elements of a list
Range(f) == {f[i] : i \in DOMAIN f}

\* keys of the records dict
Keys(records) == {records[i].key : i \in 1..Len(records)}

\* records.get(key, default)
DictGet(records, key, default) ==
    IF key \in Keys(records)
    THEN records[CHOOSE i \in 1..Len(records) : records[i].key = key].val
    ELSE default

\* records[key] = val moving a key the dict holds to the end
DictSet_MovesToEnd(records, key, val) ==
    SelectSeq(records, LAMBDA r : r.key # key) \o << [key |-> key, val |-> val] >>

\* records[key] = val: a key the dict holds keeps its position
DictSet(records, key, val) ==
    IF key \in Keys(records)
    THEN [i \in 1..Len(records) |->
            IF records[i].key = key THEN [key |-> key, val |-> val] ELSE records[i]]
    ELSE Append(records, [key |-> key, val |-> val])

\* TrueLine.__str__ without its test of an empty payload
TrueLineStr_NoPayloadTest(l) ==
    Str(l.level) \o <<" ">> \o l.tag \o <<" ">> \o l.payload

\* TrueLine.__str__
TrueLineStr(l) ==
    IF l.payload = <<>>
    THEN Str(l.level) \o <<" ">> \o l.tag
    ELSE Str(l.level) \o <<" ">> \o l.tag \o <<" ">> \o l.payload

\* Line.get_all_sub_lines, from its worklist: the references it yields, in order
RECURSIVE AllSubLines(_, _)
AllSubLines(h, work) ==
    IF work = <<>> THEN <<>>
    ELSE <<Head(work)>> \o AllSubLines(h, h[Head(work)].sub_lines \o Tail(work))

get_all_sub_lines(h, ref) == AllSubLines(h, h[ref].sub_lines)

\* object.__repr__ of FakeLine, what str() of a FakeLine gives
FakeLineRepr == <<"<", "F", "a", "k", "e", "L", "i", "n", "e", ">">>

LineStr(h, ref) == IF Bool(h, ref) THEN TrueLineStr(h[ref]) ELSE FakeLineRepr

\* the text of the lines with the newline between them and none after the last
RECURSIVE JoinLines_NoLastNewline(_, _)
JoinLines_NoLastNewline(h, refs) ==
    IF refs = <<>> THEN <<>>
    ELSE IF Len(refs) = 1 THEN LineStr(h, Head(refs))
    ELSE LineStr(h, Head(refs)) \o <<"\n">> \o JoinLines_NoLastNewline(h, Tail(refs))

\* str(self) + "\n", then str(sub_line) + "\n" for each sub-line
RECURSIVE JoinLines(_, _)
JoinLines(h, refs) ==
    IF refs = <<>> THEN <<>>
    ELSE LineStr(h, Head(refs)) \o <<"\n">> \o JoinLines(h, Tail(refs))

\* Line.get_source without its test of self
get_source_NoTest(h, ref) == JoinLines(h, <<ref>> \o get_all_sub_lines(h, ref))

\* Line.get_source
get_source(h, ref) ==
    IF ~Bool(h, ref) THEN <<>>
    ELSE JoinLines(h, <<ref>> \o get_all_sub_lines(h, ref))

\* Document.__iter__: iter(self.records.values())
DocumentIter(doc) == [k \in 1..Len(doc.records) |-> doc.records[k].val]

\* Document.get_source
RECURSIVE DocumentSource(_, _)
DocumentSource(h, records) ==
    IF records = <<>> THEN <<>>
    ELSE get_source(h, Head(records).val) \o DocumentSource(h, Tail(records))

\* the value of a TrueLine as its dataclass __eq__ compares it: the fields, sub_lines by value
RECURSIVE LineValue(_, _)
LineValue(h, ref) ==
    [level |-> h[ref].level, tag |-> h[ref].tag, payload |-> h[ref].payload,
     sub_lines |-> [k \in 1..Len(h[ref].sub_lines) |-> LineValue(h, h[ref].sub_lines[k])]]

\* the value Document.__eq__ compares: the records dict, key -> line value (order apart)
DocumentValue(h, doc) ==
    [k \in Keys(doc.records) |-> LineValue(h, DictGet(doc.records, k, fake_line))]

-----------------------------------------------------------------------------
(* parser.py: the warnings *)

LineParsingWarning(n, content) ==
    [kind |-> "LineParsingWarning", line_number |-> n, line_content |-> content]
DuplicateXRefWarning(xref) ==
    [kind |-> "DuplicateXRefWarning", xref |-> xref]
LevelInconsistencyWarning(n, content) ==
    [kind |-> "LevelInconsistencyWarning", line_number |-> n, line_content |-> content]
LevelParsingWarning(n, content) ==
    [kind |-> "LevelParsingWarning", line_number |-> n, line_content |-> content]
EmptyLineWarning(n) ==
    [kind |-> "EmptyLineWarning", line_number |-> n]
CharacterInsteadOfLineWarning(n) ==
    [kind |-> "CharacterInsteadOfLineWarning", line_number |-> n]

-----------------------------------------------------------------------------
(* parser.py: parse *)

\* the locals of parse before its loop
ParseStart ==
    [document |-> [records |-> <<>>], warnings |-> <<>>, line_number |-> 0,
     parent_lines |-> <<>>, heap |-> (fake_line :> FakeLine), pc |-> "loop"]

Warn(st, w) == [st EXCEPT !.warnings = Append(@, w)]

\* the loop popping only the entries of a greater level
RECURSIVE PopParents_KeepsEqualLevel(_, _, _)
PopParents_KeepsEqualLevel(h, stack, level) ==
    IF stack # <<>> /\ level < h[stack[Len(stack)]].level
    THEN PopParents_KeepsEqualLevel(h, SubSeq(stack, 1, Len(stack) - 1), level)
    ELSE stack

\* while parent_lines and parsed_line.level <= parent_lines[-1].level: parent_lines.pop(-1)
RECURSIVE PopParents(_, _, _)
PopParents(h, stack, level) ==
    IF stack # <<>> /\ level <= h[stack[Len(stack)]].level
    THEN PopParents(h, SubSeq(stack, 1, Len(stack) - 1), level)
    ELSE stack

\* the level-0 branch keeping the record the dict already holds
NewRecord_KeepsFirst(st, ref, line) ==
    LET tag == st.heap[ref].tag IN
    IF tag \in Keys(st.document.records)
    THEN [Warn(st, DuplicateXRefWarning(tag)) EXCEPT !.parent_lines = <<ref>>]
    ELSE [st EXCEPT !.parent_lines = <<ref>>,
                    !.document.records = DictSet(@, tag, ref)]

\* the level-0 branch pushing the record on the stack it should replace
NewRecord_KeepsStack(st, ref, line) ==
    LET tag == st.heap[ref].tag
        w   == IF tag \in Keys(st.document.records)
               THEN Warn(st, DuplicateXRefWarning(tag)) ELSE st
    IN [w EXCEPT !.parent_lines = Append(@, ref),
                 !.document.records = DictSet(@, tag, ref)]

\* the level-0 branch: a new record
NewRecord(st, ref, line) ==
    LET tag == st.heap[ref].tag
        w   == IF tag \in Keys(st.document.records)
               THEN Warn(st, DuplicateXRefWarning(tag)) ELSE st
    IN [w EXCEPT !.parent_lines = <<ref>>,
                 !.document.records = DictSet(@, tag, ref)]

\* the other branch, with the three ways of its two cases
SubLineWith(st, ref, line, orphan, skipped) ==
    LET level  == st.heap[ref].level
        popped == PopParents(st.heap, st.parent_lines, level)
        top    == popped[Len(popped)]
        warned == Warn(st, LevelInconsistencyWarning(st.line_number, line))
        attach(w) == [w EXCEPT !.heap[top].sub_lines = Append(@, ref),
                               !.parent_lines = Append(popped, ref)]
    IN
    IF Len(popped) = 0
    THEN IF orphan = "record"
         THEN [warned EXCEPT !.parent_lines = <<ref>>,
                             !.document.records = DictSet(@, st.heap[ref].tag, ref)]
         ELSE [warned EXCEPT !.parent_lines = popped]
    ELSE IF st.heap[top].level + 1 # level
         THEN CASE skipped = "drop"   -> [warned EXCEPT !.parent_lines = popped]
                [] skipped = "silent" -> attach(st)
                [] OTHER              -> attach(warned)
         ELSE attach(st)

\* a line with no open ancestor made a record of the Document
SubLine_OrphanBecomesRecord(st, ref, line) == SubLineWith(st, ref, line, "record", "warn")

\* a line below a skipped level warned about and not attached
SubLine_DropsSkippedLevel(st, ref, line) == SubLineWith(st, ref, line, "drop", "drop")

\* a line below a skipped level attached without a warning
SubLine_SilentSkippedLevel(st, ref, line) == SubLineWith(st, ref, line, "drop", "silent")

\* the other branch: a line below an open ancestor
SubLine(st, ref, line) ==
    LET level  == st.heap[ref].level
        popped == PopParents(st.heap, st.parent_lines, level)
        top    == popped[Len(popped)]
    IN
    IF Len(popped) = 0
    THEN [Warn(st, LevelInconsistencyWarning(st.line_number, line))
            EXCEPT !.parent_lines = popped]
    ELSE LET w == IF st.heap[top].level + 1 # level
                  THEN Warn(st, LevelInconsistencyWarning(st.line_number, line))
                  ELSE st
         IN [w EXCEPT !.heap[top].sub_lines = Append(@, ref),
                      !.parent_lines = Append(popped, ref)]

\* the test of the level-0 branch taking every level that is not positive
Insert_NonPositiveIsRecord(st, parsed_line, line) ==
    LET ref == st.line_number
        a   == [st EXCEPT !.heap = @ @@ (ref :> parsed_line)]
    IN IF parsed_line.level <= 0 THEN NewRecord(a, ref, line) ELSE SubLine(a, ref, line)

\* what follows the try block, with parsed_line allocated at address line_number
Insert(st, parsed_line, line) ==
    LET ref == st.line_number
        a   == [st EXCEPT !.heap = @ @@ (ref :> parsed_line)]
    IN IF parsed_line.level = 0 THEN NewRecord(a, ref, line) ELSE SubLine(a, ref, line)

\* the empty-line branch also closing the open record
EmptyLineBranch_ClosesRecord(st, line) ==
    [Warn(st, EmptyLineWarning(st.line_number)) EXCEPT !.parent_lines = <<>>]

\* elif line_info == [""]: the warning, continue
EmptyLineBranch(st, line) == Warn(st, EmptyLineWarning(st.line_number))

\* the one-character branch with continue in place of break
CharacterBranch_Continue(st, line) ==
    Warn(st, CharacterInsteadOfLineWarning(st.line_number))

\* if len(line) == 1: the warning, break
CharacterBranch(st, line) ==
    [Warn(st, CharacterInsteadOfLineWarning(st.line_number)) EXCEPT !.pc = "break"]

\* the last branch of the else: the warning, continue
LineParsingBranch(st, line) == Warn(st, LineParsingWarning(st.line_number, line))

\* except ValueError: the warning, continue
LevelParsingBranch(st, line) == Warn(st, LevelParsingWarning(st.line_number, line))

\* an except clause that names another exception
Catches_TypeError(exc) == exc = "TypeError"

\* the exceptions the except clause of the try catches
Catches(exc) == exc = "ValueError"

\* the try block: [exc] the exception its int() raises, "" when none;
\* [flow] "fall" with parsed_line built, or "jump" (continue or break) with [st]
TryBlock(st, line) ==
    LET line_info == Split(Rstrip(line), 2)
        none == TrueLine(0, <<>>, <<>>, <<>>)
    IN
    IF Len(line_info) = 3 \/ Len(line_info) = 2
    THEN IF ~IntParses(line_info[1])
         THEN [exc |-> "ValueError", flow |-> "jump", st |-> st, parsed_line |-> none]
         ELSE [exc |-> "", flow |-> "fall", st |-> st,
               parsed_line |->
                   TrueLine(Int_(line_info[1]), line_info[2],
                            IF Len(line_info) = 3 THEN line_info[3] ELSE <<>>, <<>>)]
    ELSE IF line_info = << <<>> >>
    THEN [exc |-> "", flow |-> "jump", st |-> EmptyLineBranch(st, line), parsed_line |-> none]
    ELSE IF Len(line) = 1
    THEN [exc |-> "", flow |-> "jump", st |-> CharacterBranch(st, line), parsed_line |-> none]
    ELSE [exc |-> "", flow |-> "jump", st |-> LineParsingBranch(st, line), parsed_line |-> none]

\* one iteration of the for loop on `line`; an exception the try does not catch leaves parse
LoopBody(st, line) ==
    LET s == [st EXCEPT !.line_number = @ + 1]
        t == TryBlock(s, line)
    IN
    IF t.exc # ""
    THEN IF Catches(t.exc) THEN LevelParsingBranch(s, line) ELSE [s EXCEPT !.pc = "raised"]
    ELSE IF t.flow = "jump" THEN t.st
    ELSE Insert(s, t.parsed_line, line)

\* parse(ls) up to its return: the loop over ls, left at a break
RECURSIVE ParseFrom(_, _)
ParseFrom(st, ls) ==
    IF ls = <<>> \/ st.pc # "loop" THEN st
    ELSE ParseFrom(LoopBody(st, Head(ls)), Tail(ls))

parse(ls) == ParseFrom(ParseStart, ls)

\* strict_parse testing the empty Document before the warnings
strict_parse_EmptyFirst(st) ==
    IF Len(st.document.records) = 0
    THEN [outcome |-> "NothingParsed", args |-> <<>>]
    ELSE IF st.warnings # <<>>
    THEN [outcome |-> "ParsingError", args |-> st.warnings]
    ELSE [outcome |-> "Document", args |-> <<>>]

\* strict_parse, once the file is open: what it raises or returns
strict_parse(st) ==
    IF st.warnings # <<>>
    THEN [outcome |-> "ParsingError", args |-> st.warnings]
    ELSE IF Len(st.document.records) = 0
    THEN [outcome |-> "NothingParsed", args |-> <<>>]
    ELSE [outcome |-> "Document", args |-> <<>>]

-----------------------------------------------------------------------------
(* base.py: the read operations of a Line and of a Document *)

\* Document.get_record: self.records.get(identifier, fake_line)
get_record(doc, identifier) == DictGet(doc.records, identifier, fake_line)

\* get_sub_lines of FakeLine and of TrueLine
get_sub_lines(h, ref, tag) ==
    IF ~Bool(h, ref) THEN <<>>
    ELSE SelectSeq(h[ref].sub_lines, LAMBDA r : h[r].tag = tag)

\* get_sub_line of FakeLine and of TrueLine
get_sub_line(h, ref, tag) ==
    IF ~Bool(h, ref) THEN fake_line
    ELSE LET found == SelectSeq(h[ref].sub_lines, LAMBDA r : h[r].tag = tag)
         IN IF found = <<>> THEN fake_line ELSE Head(found)

\* get_sub_line_payload of FakeLine and of TrueLine
get_sub_line_payload(h, ref, tag) ==
    IF ~Bool(h, ref) THEN <<>>
    ELSE LET found == SelectSeq(h[ref].sub_lines, LAMBDA r : h[r].tag = tag)
         IN IF found = <<>> THEN <<>> ELSE h[Head(found)].payload

\* Line.__iter__: iter(self.sub_lines)
Iter(h, ref) == h[ref].sub_lines

-----------------------------------------------------------------------------
(* family_link.py: FamilyLink *)

\* the tags and payloads family_link.py names
FAM  == <<"F", "A", "M">>
CHIL == <<"C", "H", "I", "L">>
HUSB == <<"H", "U", "S", "B">>
WIFE == <<"W", "I", "F", "E">>
FAMC == <<"F", "A", "M", "C">>
VOID == <<"@", "V", "O", "I", "D", "@">>

\* self.unions[key].append(fam_record), on the defaultdict(list)
DefaultDictAppend(unions_, key, fam_record) ==
    DictSet(unions_, key, Append(DictGet(unions_, key, <<>>), fam_record))

\* father = self.document.records[line.payload]; self.unions[father.tag].append(fam_record)
\* (slot "father"), and the same for the mother: records[...] raises KeyError
BuildPartner(h, doc, acc, fam_record, line, slot) ==
    IF h[line].payload \notin Keys(doc.records)
    THEN [acc EXCEPT !.exc = "KeyError"]
    ELSE LET partner == DictGet(doc.records, h[line].payload, fake_line) IN
         [acc EXCEPT ![slot] = partner,
                     !.unions = DefaultDictAppend(@, h[partner].tag, fam_record)]

\* the body of `for line in fam_record.sub_lines`, on the locals
\* acc = [children, father, mother, unions, exc]
BuildSubLine(h, doc, acc, fam_record, line) ==
    IF acc.exc # "" THEN acc
    ELSE IF h[line].payload = VOID THEN acc
    ELSE IF h[line].tag = CHIL
    THEN [acc EXCEPT !.children = Append(@, h[line].payload)]
    ELSE IF h[line].tag = HUSB THEN BuildPartner(h, doc, acc, fam_record, line, "father")
    ELSE IF h[line].tag = WIFE THEN BuildPartner(h, doc, acc, fam_record, line, "mother")
    ELSE acc

RECURSIVE BuildSubLines(_, _, _, _, _)
BuildSubLines(h, doc, acc, fam_record, sub_lines) ==
    IF sub_lines = <<>> THEN acc
    ELSE BuildSubLines(h, doc, BuildSubLine(h, doc, acc, fam_record, Head(sub_lines)),
                       fam_record, Tail(sub_lines))

\* the loop keeping the parents a child already has
RECURSIVE SetParents_KeepsFirst(_, _, _)
SetParents_KeepsFirst(parents_, children, pair) ==
    IF children = <<>> THEN parents_
    ELSE SetParents_KeepsFirst(
            IF Head(children) \in Keys(parents_) THEN parents_
            ELSE DictSet(parents_, Head(children), pair),
            Tail(children), pair)

\* for child in children: self.parents[child] = (father, mother)
RECURSIVE SetParents(_, _, _)
SetParents(parents_, children, pair) ==
    IF children = <<>> THEN parents_
    ELSE SetParents(DictSet(parents_, Head(children), pair), Tail(children), pair)

\* the body of `for fam_record in self.document.records.values()`, on
\* link = [parents, unions, exc]
BuildRecord(h, doc, link, fam_record) ==
    IF link.exc # "" \/ h[fam_record].payload # FAM THEN link
    ELSE LET acc == BuildSubLines(h, doc,
                        [children |-> <<>>, father |-> fake_line, mother |-> fake_line,
                         unions |-> link.unions, exc |-> ""],
                        fam_record, h[fam_record].sub_lines)
         IN IF acc.exc # ""
            THEN [link EXCEPT !.unions = acc.unions, !.exc = acc.exc]
            ELSE [parents |-> SetParents(link.parents, acc.children,
                                         <<acc.father, acc.mother>>),
                  unions |-> acc.unions, exc |-> ""]

\* the loop taking the records from the last to the first
RECURSIVE BuildRecords_Reversed(_, _, _, _)
BuildRecords_Reversed(h, doc, link, records) ==
    IF records = <<>> THEN link
    ELSE BuildRecords_Reversed(h, doc,
                               BuildRecord(h, doc, link, records[Len(records)].val),
                               SubSeq(records, 1, Len(records) - 1))

\* for fam_record in self.document.records.values()
RECURSIVE BuildRecords(_, _, _, _)
BuildRecords(h, doc, link, records) ==
    IF records = <<>> THEN link
    ELSE BuildRecords(h, doc, BuildRecord(h, doc, link, Head(records).val), Tail(records))

\* FamilyLink._build_dicts: the two dicts, or the exception that leaves it
_build_dicts(h, doc) ==
    BuildRecords(h, doc, [parents |-> <<>>, unions |-> <<>>, exc |-> ""], doc.records)

\* a FamilyLink object: the Document (with the heap its lines live in) and the two dicts
FamilyLink(h, doc, parents_, unions_) ==
    [heap |-> h, document |-> doc, parents |-> parents_, unions |-> unions_]

\* Optional[FamRef]
None == [is_none |-> TRUE, ref |-> <<>>]
Some(ref) == [is_none |-> FALSE, ref |-> ref]

\* the result of a call: a returned value, or the exception that left it
Returned(value) == [outcome |-> "return", value |-> value]
Raised(exc) == [outcome |-> exc, value |-> <<>>]

\* FamilyLink.get_parent_family_ref
get_parent_family_ref(self, child) ==
    IF ~Bool(self.heap, child) THEN None
    ELSE LET famc == SelectSeq(self.heap[child].sub_lines,
                               LAMBDA r : self.heap[r].tag = FAMC)
         IN IF famc = <<>> THEN None
            ELSE IF self.heap[Head(famc)].payload = VOID THEN None
            ELSE Some(self.heap[Head(famc)].payload)

\* FamilyLink.get_parent_family: records[fam_ref] if fam_ref else fake_line
get_parent_family(self, child) ==
    LET fam_ref == get_parent_family_ref(self, child) IN
    IF fam_ref.is_none \/ fam_ref.ref = <<>> THEN Returned(fake_line)
    ELSE IF fam_ref.ref \notin Keys(self.document.records) THEN Raised("KeyError")
    ELSE Returned(DictGet(self.document.records, fam_ref.ref, fake_line))

\* get_parents reading the FAM records of the Document at the time of the call
get_parents_FromDocument(self, child) ==
    DictGet(_build_dicts(self.heap, self.document).parents, child, <<fake_line, fake_line>>)

\* FamilyLink.get_parents
get_parents(self, child) == DictGet(self.parents, child, <<fake_line, fake_line>>)

\* FamilyLink.get_unions
get_unions(self, spouse) == DictGet(self.unions, spouse, <<>>)

\* FamilyLink.get_unions_with
get_unions_with(self, spouse1, spouse2) ==
    LET spouse_fams == DictGet(self.unions, spouse1, <<>>) IN
    SelectSeq(DictGet(self.unions, spouse2, <<>>), LAMBDA fam : fam \in Range(spouse_fams))

\* [sub_line.payload for sub_line in kept], kept being the sub-lines that pass the
\* test of the comprehension
PayloadsOf(self, kept) == [k \in 1..Len(kept) |-> self.heap[kept[k]].payload]

\* the test of a child sub-line without the void placeholder
IsChild_NoVoidTest(self, sub_line) == self.heap[sub_line].tag = CHIL

\* sub_line.tag == "CHIL" and sub_line.payload != "@VOID@"
IsChild(self, sub_line) ==
    self.heap[sub_line].tag = CHIL /\ self.heap[sub_line].payload # VOID

\* [sub_line.payload for fam in unions for sub_line in fam.sub_lines if IsChild]
RECURSIVE ChildrenOf(_, _)
ChildrenOf(self, fams) ==
    IF fams = <<>> THEN <<>>
    ELSE PayloadsOf(self, SelectSeq(self.heap[Head(fams)].sub_lines,
                    LAMBDA l : IsChild(self, l)))
            \o ChildrenOf(self, Tail(fams))

\* FamilyLink.get_children_ref
get_children_ref(self, parent) == ChildrenOf(self, DictGet(self.unions, parent, <<>>))

\* FamilyLink.get_children_with_ref
get_children_with_ref(self, spouse1, spouse2) ==
    ChildrenOf(self, get_unions_with(self, spouse1, spouse2))

\* FamilyLink.get_spouses_ref
RECURSIVE SpousesOf(_, _, _)
SpousesOf(self, indi, fams) ==
    IF fams = <<>> THEN <<>>
    ELSE PayloadsOf(self, SelectSeq(self.heap[Head(fams)].sub_lines,
                    LAMBDA l : /\ self.heap[l].tag \in {HUSB, WIFE}
                               /\ self.heap[l].payload # indi
                               /\ self.heap[l].payload # VOID))
            \o SpousesOf(self, indi, Tail(fams))

get_spouses_ref(self, indi) == SpousesOf(self, indi, DictGet(self.unions, indi, <<>>))

\* unions.extend(u for u in us if u not in unions): the generator reads the list
\* while extend appends to it
RECURSIVE ExtendNew(_, _)
ExtendNew(unions_, us) ==
    IF us = <<>> THEN unions_
    ELSE ExtendNew(IF Head(us) \in Range(unions_) THEN unions_ ELSE Append(unions_, Head(us)),
                   Tail(us))

\* the list `unions` of get_all_siblings_ref: the father's unions, then the mother's
\* that the list does not hold yet
ParentUnions(self, indi) ==
    LET father == get_parents(self, indi)[1]
        mother == get_parents(self, indi)[2]
        of_father == IF Bool(self.heap, father)
                     THEN DictGet(self.unions, self.heap[father].tag, <<>>) ELSE <<>>
        of_mother == IF Bool(self.heap, mother)
                     THEN DictGet(self.unions, self.heap[mother].tag, <<>>) ELSE <<>>
    IN ExtendNew(of_father, of_mother)

\* [payload of the child sub-lines of fams, the person apart]
RECURSIVE SiblingsOf(_, _, _)
SiblingsOf(self, indi, fams) ==
    IF fams = <<>> THEN <<>>
    ELSE PayloadsOf(self, SelectSeq(self.heap[Head(fams)].sub_lines,
                    LAMBDA l : IsChild(self, l) /\ self.heap[l].payload # indi))
            \o SiblingsOf(self, indi, Tail(fams))

\* FamilyLink.get_all_siblings_ref
get_all_siblings_ref(self, indi) == SiblingsOf(self, indi, ParentUnions(self, indi))

\* FamilyLink.get_siblings_ref: records[indi] raises KeyError, and so does
\* get_parent_family on a FAMC that names no record
get_siblings_ref(self, indi) ==
    IF indi \notin Keys(self.document.records) THEN Raised("KeyError")
    ELSE LET fam == get_parent_family(self,
                        DictGet(self.document.records, indi, fake_line))
         IN IF fam.outcome # "return" THEN fam
            ELSE Returned(SiblingsOf(self, indi, <<fam.value>>))

\* FamilyLink.get_stepsiblings_ref: records[indi] raises KeyError
get_stepsiblings_ref(self, indi) ==
    IF indi \notin Keys(self.document.records) THEN Raised("KeyError")
    ELSE LET parent_fam == get_parent_family_ref(self,
                               DictGet(self.document.records, indi, fake_line))
             father == get_parents(self, indi)[1]
             mother == get_parents(self, indi)[2]
             of_father == IF Bool(self.heap, father)
                          THEN DictGet(self.unions, self.heap[father].tag, <<>>) ELSE <<>>
             of_mother == IF Bool(self.heap, mother)
                          THEN DictGet(self.unions, self.heap[mother].tag, <<>>) ELSE <<>>
         IN Returned(ChildrenOf(self,
                SelectSeq(of_father \o of_mother,
                          LAMBDA fam : parent_fam.is_none
                                       \/ self.heap[fam].tag # parent_fam.ref)))

\* the orders list(set(...)) can give the same elements in: the order depends on the
\* hashes of the strings, which change from one process to the next
SetOrders == {"first met", "last met"}

\* xs without the elements met before
RECURSIVE Distinct(_)
Distinct(xs) ==
    IF xs = <<>> THEN <<>>
    ELSE LET front == Distinct(SubSeq(xs, 1, Len(xs) - 1))
         IN IF xs[Len(xs)] \in Range(front) THEN front ELSE Append(front, xs[Len(xs)])

Reverse(xs) == [k \in 1..Len(xs) |-> xs[Len(xs) + 1 - k]]

\* list(set(xs)) that keeps every element of xs
ListOfSet_KeepsDuplicates(xs, order) == IF order = "first met" THEN xs ELSE Reverse(xs)

\* list(set(xs)), in the order `order` stands for
ListOfSet(xs, order) == IF order = "first met" THEN Distinct(xs) ELSE Reverse(Distinct(xs))

\* [p.tag for i in parents for p in self.get_parents(i) if p]
RECURSIVE ParentsOf(_, _)
ParentsOf(self, people) ==
    IF people = <<>> THEN <<>>
    ELSE LET pair  == get_parents(self, Head(people))
             found == SelectSeq(pair, LAMBDA p : Bool(self.heap, p))
         IN [k \in 1..Len(found) |-> self.heap[found[k]].tag]
                \o ParentsOf(self, Tail(people))

\* the first loop of traverse_ref, `left` iterations from the end, on [parents, last_parents]
RECURSIVE Ascend(_, _, _)
Ascend(self, st, left) ==
    IF left = 0 THEN st
    ELSE Ascend(self, [parents |-> ParentsOf(self, st.parents), last_parents |-> st.parents],
                left - 1)

\* the comprehension without its test of last_parents
RECURSIVE ChildrenNotIn_NoTest(_, _, _)
ChildrenNotIn_NoTest(self, people, last_parents) ==
    IF people = <<>> THEN <<>>
    ELSE get_children_ref(self, Head(people))
            \o ChildrenNotIn_NoTest(self, Tail(people), last_parents)

\* [c for i in children for c in self.get_children_ref(i) if c not in last_parents]
RECURSIVE ChildrenNotIn(_, _, _)
ChildrenNotIn(self, people, last_parents) ==
    IF people = <<>> THEN <<>>
    ELSE SelectSeq(get_children_ref(self, Head(people)),
                   LAMBDA c : c \notin Range(last_parents))
            \o ChildrenNotIn(self, Tail(people), last_parents)

\* the second loop testing last_parents on its first iteration only, and only when
\* ascent is 1
RECURSIVE Descend_TestsFirstStepOnly(_, _, _, _, _, _, _)
Descend_TestsFirstStepOnly(self, order, children, last_parents, k, ascent, descent) ==
    IF k >= descent THEN children
    ELSE LET next == IF k = 0 /\ ascent = 1
                     THEN ChildrenNotIn(self, children, last_parents)
                     ELSE ChildrenNotIn(self, children, <<>>)
         IN Descend_TestsFirstStepOnly(self, order,
                    IF k = 0 /\ ascent = 1 THEN ListOfSet(next, order) ELSE next,
                    last_parents, k + 1, ascent, descent)

\* the second loop removing the duplicates on every iteration
RECURSIVE Descend_AlwaysNoDuplicates(_, _, _, _, _, _, _)
Descend_AlwaysNoDuplicates(self, order, children, last_parents, k, ascent, descent) ==
    IF k >= descent THEN children
    ELSE Descend_AlwaysNoDuplicates(self, order,
                    ListOfSet(ChildrenNotIn(self, children, last_parents), order),
                    last_parents, k + 1, ascent, descent)

\* the second loop of traverse_ref from its iteration k
RECURSIVE Descend(_, _, _, _, _, _, _)
Descend(self, order, children, last_parents, k, ascent, descent) ==
    IF k >= descent THEN children
    ELSE LET next == ChildrenNotIn(self, children, last_parents)
         IN Descend(self, order,
                    IF k = 0 /\ ascent = 1 THEN ListOfSet(next, order) ELSE next,
                    last_parents, k + 1, ascent, descent)

\* FamilyLink.traverse_ref
traverse_ref(self, order, indi, ascent, descent) ==
    LET up == Ascend(self, [parents |-> <<indi>>, last_parents |-> <<indi>>], ascent)
    IN Descend(self, order, up.parents, up.last_parents, 0, ascent, descent)

\* get_relatives_ref adding the collateral difference to the ascent only
get_relatives_ref_AscentOnly(self, order, indi, generation_diff, collateral_diff) ==
    LET pos_gen == IF generation_diff >= 0 THEN generation_diff ELSE 0
        neg_gen == IF generation_diff >= 0 THEN 0 ELSE 0 - generation_diff
    IN traverse_ref(self, order, indi, pos_gen + collateral_diff, neg_gen)

\* FamilyLink.get_relatives_ref
get_relatives_ref(self, order, indi, generation_diff, collateral_diff) ==
    LET pos_gen == IF generation_diff >= 0 THEN generation_diff ELSE 0
        neg_gen == IF generation_diff >= 0 THEN 0 ELSE 0 - generation_diff
    IN traverse_ref(self, order, indi, pos_gen + collateral_diff, neg_gen + collateral_diff)

\* the comprehension of get_by_degree_ref from the pair (ascent, descent) on, both
\* loops over range(stop)
RECURSIVE ByDegreeFrom(_, _, _, _, _, _, _)
ByDegreeFrom(self, order, indi, degree, stop, ascent, descent) ==
    IF ascent >= stop THEN <<>>
    ELSE IF descent >= stop
    THEN ByDegreeFrom(self, order, indi, degree, stop, ascent + 1, 0)
    ELSE LET ps == traverse_ref(self, order, indi, ascent, descent)
         IN (IF ascent + descent = degree THEN ps ELSE <<>>)
                \o ByDegreeFrom(self, order, indi, degree, stop, ascent, descent + 1)

\* get_by_degree_ref with range(degree) in place of range(degree + 1)
get_by_degree_ref_ShortRange(self, order, indi, degree) ==
    ByDegreeFrom(self, order, indi, degree, degree, 0, 0)

\* FamilyLink.get_by_degree_ref
get_by_degree_ref(self, order, indi, degree) ==
    ByDegreeFrom(self, order, indi, degree, degree + 1, 0, 0)

-----------------------------------------------------------------------------
(* The inputs *)

\* the lines an input is drawn from
LineSet ==
    { <<"0", " ", "H">>,                   \* a record
      <<"0", " ", "H", " ", "x">>,         \* the same identifier, with a payload
      <<"0", " ", "I">>,                   \* another record
      <<"1", " ", "N">>,                   \* a sub-line
      <<"2", " ", "N", " ", "x">>,         \* a deeper line, with a payload
      <<"0", "1", " ", "N">>,              \* level 1 written with a leading zero
      <<"1", " ", "N", " ">>,              \* trailing whitespace
      <<"-", "1", " ", "N">>,              \* a negative level
      <<>>,                                \* an empty line
      <<" ">>,                             \* a blank line of one character
      <<"N">>,                             \* one character
      <<"N", "N">>,                        \* one field
      <<"x", " ", "N">> }                  \* a level that is no integer

\* the lines of the documents the read operations are run on
ReadLineSet ==
    { <<"0", " ", "H">>,
      <<"0", " ", "I", " ", "x">>,
      <<"1", " ", "N", " ", "x">>,
      <<"2", " ", "N">> }

\* the identifiers looked up and the tags read
Identifiers == { <<"H">>, <<"I">>, <<"Z">> }
Tags == { <<"N">>, <<"M">> }

\* the identifiers of the family documents: three people with a record, one without
IdA == <<"@", "A", "@">>
IdB == <<"@", "B", "@">>
IdC == <<"@", "C", "@">>
IdZ == <<"@", "Z", "@">>
IdF == <<"@", "F", "@">>
IdG == <<"@", "G", "@">>
INDI == <<"I", "N", "D", "I">>

\* the text of a line: LEVEL TAG PAYLOAD
GedLine(level, tag, payload) == Str(level) \o <<" ">> \o tag \o <<" ">> \o payload

\* the sub-lines the first family record is drawn from
FamLineSet ==
    { GedLine(1, HUSB, IdA), GedLine(1, HUSB, VOID),
      GedLine(1, WIFE, IdB), GedLine(1, WIFE, IdZ),
      GedLine(1, CHIL, IdA), GedLine(1, CHIL, IdC), GedLine(1, CHIL, VOID) }

\* the sub-lines of the second family record, when there is one
SecondFamilies ==
    { <<>>,
      <<GedLine(1, HUSB, IdA), GedLine(1, CHIL, IdC)>>,
      <<GedLine(1, HUSB, IdC), GedLine(1, CHIL, IdB)>> }

\* the records of the people: @C@ without a FAMC sub-line, or with one that names
\* the first or the second family
PersonRecords ==
    { <<GedLine(0, IdA, INDI), GedLine(0, IdB, INDI), GedLine(0, IdC, INDI)>> \o famc :
        famc \in { <<>>, <<GedLine(1, FAMC, IdF)>>, <<GedLine(1, FAMC, IdG)>> } }

\* a document: the family records, then the people
FamilyDocument(first, second, people) ==
    <<GedLine(0, IdF, FAM)>> \o first
        \o (IF second = <<>> THEN <<>> ELSE <<GedLine(0, IdG, FAM)>> \o second)
        \o people

\* the identifiers the calls on the FamilyLink are made with; the first of a pair
People == {IdA, IdB, IdC, IdZ}
Partners == {IdA, IdZ}

RECURSIVE SeqsUpTo(_, _)
SeqsUpTo(S, n) ==
    IF n = 0 THEN { <<>> }
    ELSE LET shorter == SeqsUpTo(S, n - 1)
         IN shorter \cup { Append(q, x) : q \in shorter, x \in S }

\* the line as the iterable yields it: a file's lines keep their terminator
Fed(l) == IF from_file THEN l \o <<"\n">> ELSE l

\* the locals of parse as one value
State ==
    [document |-> document, warnings |-> warnings, line_number |-> line_number,
     parent_lines |-> parent_lines, heap |-> heap, pc |-> pc]

\* no call on a FamilyLink yet
NoQuery == [op |-> "", args |-> <<>>, order |-> "", outcome |-> "", value |-> <<>>]

-----------------------------------------------------------------------------
(* The state machine of the parser *)

Init ==
    /\ lines = <<>>
    /\ from_file \in BOOLEAN
    /\ document = ParseStart.document
    /\ warnings = ParseStart.warnings
    /\ line_number = ParseStart.line_number
    /\ parent_lines = ParseStart.parent_lines
    /\ heap = ParseStart.heap
    /\ pc = "loop"
    /\ strict_result = [outcome |-> "", args |-> <<>>]
    /\ chain = <<>>
    /\ cur = fake_line
    /\ parents = <<>>
    /\ unions = <<>>
    /\ query = NoQuery

\* the for loop takes the next line of the iterable
ParseLine ==
    /\ pc = "loop"
    /\ Len(lines) < MaxLines
    /\ \E l \in LineSet :
         LET st == LoopBody(State, Fed(l)) IN
         /\ lines' = Append(lines, l)
         /\ document' = st.document
         /\ warnings' = st.warnings
         /\ line_number' = st.line_number
         /\ parent_lines' = st.parent_lines
         /\ heap' = st.heap
         /\ pc' = st.pc
    /\ UNCHANGED <<from_file, strict_result, chain, cur, parents, unions, query>>

\* the iterable is exhausted, or the loop was left by break: return (document, warnings)
Return ==
    /\ pc \in {"loop", "break"}
    /\ pc' = "returned"
    /\ UNCHANGED <<lines, from_file, document, warnings, line_number, parent_lines,
                   heap, strict_result, chain, cur, parents, unions, query>>

\* strict_parse on the file: after parse returned
StrictParse ==
    /\ pc = "returned"
    /\ from_file
    /\ strict_result' = strict_parse(State)
    /\ pc' = "strict"
    /\ UNCHANGED <<lines, from_file, document, warnings, line_number, parent_lines,
                   heap, chain, cur, parents, unions, query>>

Next == ParseLine \/ Return \/ StrictParse

Spec == Init /\ [][Next]_vars

-----------------------------------------------------------------------------
(* The state machine of the read operations, on a parsed Document *)

InitRead ==
    /\ lines \in SeqsUpTo(ReadLineSet, MaxReadLines)
    /\ from_file = FALSE
    /\ document = parse(lines).document
    /\ warnings = parse(lines).warnings
    /\ line_number = parse(lines).line_number
    /\ parent_lines = parse(lines).parent_lines
    /\ heap = parse(lines).heap
    /\ pc = "read"
    /\ strict_result = [outcome |-> "", args |-> <<>>]
    /\ chain = <<>>
    /\ cur = fake_line
    /\ parents = <<>>
    /\ unions = <<>>
    /\ query = NoQuery

\* document[identifier]
GetRecord ==
    /\ pc = "read"
    /\ chain = <<>>
    /\ \E x \in Identifiers :
         /\ cur' = get_record(document, x)
         /\ chain' = <<[op |-> "get_record", arg |-> x]>>
    /\ UNCHANGED <<lines, from_file, document, warnings, line_number, parent_lines,
                   heap, pc, strict_result, parents, unions, query>>

\* line > tag, on the line the chain holds
GetSubLine ==
    /\ pc = "read"
    /\ chain # <<>>
    /\ Len(chain) < MaxChain
    /\ \E t \in Tags :
         /\ cur' = get_sub_line(heap, cur, t)
         /\ chain' = Append(chain, [op |-> "get_sub_line", arg |-> t])
    /\ UNCHANGED <<lines, from_file, document, warnings, line_number, parent_lines,
                   heap, pc, strict_result, parents, unions, query>>

NextRead == GetRecord \/ GetSubLine

SpecRead == InitRead /\ [][NextRead]_vars

-----------------------------------------------------------------------------
(* The state machine of the FamilyLink, on a parsed Document *)

\* the documents a FamilyLink is built on
FamilyDocuments ==
    { FamilyDocument(first, second, people) :
        first \in SeqsUpTo(FamLineSet, MaxFamLines), second \in SecondFamilies,
        people \in PersonRecords }

InitFam ==
    /\ lines \in FamilyDocuments
    /\ from_file = FALSE
    /\ document = parse(lines).document
    /\ warnings = parse(lines).warnings
    /\ line_number = parse(lines).line_number
    /\ parent_lines = parse(lines).parent_lines
    /\ heap = parse(lines).heap
    /\ pc = "parsed"
    /\ strict_result = [outcome |-> "", args |-> <<>>]
    /\ chain = <<>>
    /\ cur = fake_line
    /\ parents = <<>>
    /\ unions = <<>>
    /\ query = NoQuery

\* FamilyLink(document): __init__ runs _build_dicts; a KeyError leaves the constructor
BuildDicts ==
    /\ pc = "parsed"
    /\ LET link == _build_dicts(heap, document) IN
         /\ parents' = link.parents
         /\ unions' = link.unions
         /\ pc' = IF link.exc = "" THEN "built" ELSE "raised"
         /\ query' = [NoQuery EXCEPT !.op = "__init__",
                                     !.outcome = IF link.exc = "" THEN "return" ELSE link.exc]
    /\ UNCHANGED <<lines, from_file, document, warnings, line_number, parent_lines,
                   heap, strict_result, chain, cur>>

\* the FamilyLink the calls are made on. No method writes to it (the dicts are read
\* with .get), so every call is made on the FamilyLink as built: pc = "called" ends
\* the run of one call.
Self == FamilyLink(heap, document, parents, unions)

\* the record of a call and of what it gave
Called(op, args, order, result) ==
    [op |-> op, args |-> args, order |-> order,
     outcome |-> result.outcome, value |-> result.value]

\* linker.get_parents(child)
GetParents ==
    /\ pc = "built"
    /\ \E child \in People :
         /\ query' = Called("get_parents", <<child>>, "", Returned(get_parents(Self, child)))
    /\ pc' = "called"
    /\ UNCHANGED <<lines, from_file, document, warnings, line_number, parent_lines,
                   heap, strict_result, chain, cur, parents, unions>>

\* linker.get_unions(spouse)
GetUnions ==
    /\ pc = "built"
    /\ \E spouse \in People :
         /\ query' = Called("get_unions", <<spouse>>, "", Returned(get_unions(Self, spouse)))
    /\ pc' = "called"
    /\ UNCHANGED <<lines, from_file, document, warnings, line_number, parent_lines,
                   heap, strict_result, chain, cur, parents, unions>>

\* linker.get_unions_with(spouse1, spouse2)
GetUnionsWith ==
    /\ pc = "built"
    /\ \E spouse1 \in Partners, spouse2 \in People :
         /\ query' = Called("get_unions_with", <<spouse1, spouse2>>, "", Returned(get_unions_with(Self, spouse1, spouse2)))
    /\ pc' = "called"
    /\ UNCHANGED <<lines, from_file, document, warnings, line_number, parent_lines,
                   heap, strict_result, chain, cur, parents, unions>>

\* linker.get_children_ref(parent)
GetChildrenRef ==
    /\ pc = "built"
    /\ \E parent \in People :
         /\ query' = Called("get_children_ref", <<parent>>, "", Returned(get_children_ref(Self, parent)))
    /\ pc' = "called"
    /\ UNCHANGED <<lines, from_file, document, warnings, line_number, parent_lines,
                   heap, strict_result, chain, cur, parents, unions>>

\* linker.get_children_with_ref(spouse1, spouse2)
GetChildrenWithRef ==
    /\ pc = "built"
    /\ \E spouse1 \in Partners, spouse2 \in People :
         /\ query' = Called("get_children_with_ref", <<spouse1, spouse2>>, "", Returned(get_children_with_ref(Self, spouse1, spouse2)))
    /\ pc' = "called"
    /\ UNCHANGED <<lines, from_file, document, warnings, line_number, parent_lines,
                   heap, strict_result, chain, cur, parents, unions>>

\* linker.get_spouses_ref(indi)
GetSpousesRef ==
    /\ pc = "built"
    /\ \E indi \in People :
         /\ query' = Called("get_spouses_ref", <<indi>>, "", Returned(get_spouses_ref(Self, indi)))
    /\ pc' = "called"
    /\ UNCHANGED <<lines, from_file, document, warnings, line_number, parent_lines,
                   heap, strict_result, chain, cur, parents, unions>>

\* linker.get_all_siblings_ref(indi)
GetAllSiblingsRef ==
    /\ pc = "built"
    /\ \E indi \in People :
         /\ query' = Called("get_all_siblings_ref", <<indi>>, "", Returned(get_all_siblings_ref(Self, indi)))
    /\ pc' = "called"
    /\ UNCHANGED <<lines, from_file, document, warnings, line_number, parent_lines,
                   heap, strict_result, chain, cur, parents, unions>>

\* linker.get_siblings_ref(indi)
GetSiblingsRef ==
    /\ pc = "built"
    /\ \E indi \in People :
         /\ query' = Called("get_siblings_ref", <<indi>>, "", get_siblings_ref(Self, indi))
    /\ pc' = "called"
    /\ UNCHANGED <<lines, from_file, document, warnings, line_number, parent_lines,
                   heap, strict_result, chain, cur, parents, unions>>

\* linker.get_stepsiblings_ref(indi)
GetStepsiblingsRef ==
    /\ pc = "built"
    /\ \E indi \in People :
         /\ query' = Called("get_stepsiblings_ref", <<indi>>, "", get_stepsiblings_ref(Self, indi))
    /\ pc' = "called"
    /\ UNCHANGED <<lines, from_file, document, warnings, line_number, parent_lines,
                   heap, strict_result, chain, cur, parents, unions>>

\* linker.traverse_ref(indi, ascent, descent)
TraverseRef ==
    /\ pc = "built"
    /\ \E indi \in People, ascent \in 0..MaxDegree, descent \in 0..MaxDegree, order \in SetOrders :
         /\ query' = Called("traverse_ref", <<indi, ascent, descent>>, order, Returned(traverse_ref(Self, order, indi, ascent, descent)))
    /\ pc' = "called"
    /\ UNCHANGED <<lines, from_file, document, warnings, line_number, parent_lines,
                   heap, strict_result, chain, cur, parents, unions>>

\* linker.get_relatives_ref(indi, generation_diff, collateral_diff)
GetRelativesRef ==
    /\ pc = "built"
    /\ \E indi \in People, generation_diff \in (0 - MaxGeneration)..MaxGeneration,
            collateral_diff \in 0..MaxCollateral, order \in SetOrders :
         /\ query' = Called("get_relatives_ref", <<indi, generation_diff, collateral_diff>>, order, Returned(get_relatives_ref(Self, order, indi, generation_diff, collateral_diff)))
    /\ pc' = "called"
    /\ UNCHANGED <<lines, from_file, document, warnings, line_number, parent_lines,
                   heap, strict_result, chain, cur, parents, unions>>

\* linker.get_by_degree_ref(indi, degree)
GetByDegreeRef ==
    /\ pc = "built"
    /\ \E indi \in People, degree \in 0..MaxDegree, order \in SetOrders :
         /\ query' = Called("get_by_degree_ref", <<indi, degree>>, order, Returned(get_by_degree_ref(Self, order, indi, degree)))
    /\ pc' = "called"
    /\ UNCHANGED <<lines, from_file, document, warnings, line_number, parent_lines,
                   heap, strict_result, chain, cur, parents, unions>>

NextFam ==
    \/ BuildDicts
    \/ GetParents \/ GetUnions \/ GetUnionsWith
    \/ GetChildrenRef \/ GetChildrenWithRef \/ GetSpousesRef
    \/ GetAllSiblingsRef \/ GetSiblingsRef \/ GetStepsiblingsRef
    \/ TraverseRef \/ GetRelativesRef \/ GetByDegreeRef

SpecFam == InitFam /\ [][NextFam]_vars

-----------------------------------------------------------------------------
(* The state machine of a FamilyLink whose Document the caller changes *)

\* sub-lines of the first family record of a document the caller changes
MaxMutLines == 2

\* the sub-lines the first family record is drawn from
MutLineSet ==
    { GedLine(1, HUSB, IdA), GedLine(1, WIFE, IdB),
      GedLine(1, CHIL, IdA), GedLine(1, CHIL, IdC) }

\* the documents the caller changes after the FamilyLink is built
MutDocuments ==
    { FamilyDocument(first, second,
                     <<GedLine(0, IdA, INDI), GedLine(0, IdB, INDI), GedLine(0, IdC, INDI)>>) :
        first \in SeqsUpTo(MutLineSet, MaxMutLines), second \in SecondFamilies }

InitMut ==
    /\ lines \in MutDocuments
    /\ from_file = FALSE
    /\ document = parse(lines).document
    /\ warnings = parse(lines).warnings
    /\ line_number = parse(lines).line_number
    /\ parent_lines = parse(lines).parent_lines
    /\ heap = parse(lines).heap
    /\ pc = "parsed"
    /\ strict_result = [outcome |-> "", args |-> <<>>]
    /\ chain = <<>>
    /\ cur = fake_line
    /\ parents = <<>>
    /\ unions = <<>>
    /\ query = NoQuery

\* the Document is the one parse returned
AsParsed == heap = parse(lines).heap /\ document = parse(lines).document

\* the reference of an object the caller creates
NewRef(h) == 1 + CHOOSE m \in DOMAIN h : \A n \in DOMAIN h : n <= m

IdH == <<"@", "H", "@">>

\* the sub-lines the caller appends to a FAM record, as [tag, payload]
AppendedLines == { <<CHIL, IdB>>, <<CHIL, IdC>>, <<WIFE, IdB>>, <<HUSB, IdC>> }

\* the sub-lines of the FAM record the caller adds
AddedFamilies == { << <<HUSB, IdA>>, <<CHIL, IdB>> >>, << <<WIFE, IdB>>, <<CHIL, IdC>> >> }

\* document.records[fam].sub_lines.append(TrueLine(1, tag, payload)), on a FAM record
AppendSubLine ==
    /\ pc = "built"
    /\ AsParsed
    /\ \E k \in 1..Len(document.records), line \in AppendedLines :
         LET fam == document.records[k].val
             ref == NewRef(heap)
         IN /\ heap[fam].payload = FAM
            /\ heap' = [heap EXCEPT ![fam].sub_lines = Append(@, ref)]
                            @@ (ref :> TrueLine(1, line[1], line[2], <<>>))
    /\ UNCHANGED <<lines, from_file, document, warnings, line_number, parent_lines,
                   pc, strict_result, chain, cur, parents, unions, query>>

\* document.records["@H@"] = TrueLine(0, "@H@", "FAM", [TrueLine(1, ...), ...])
AddFamRecord ==
    /\ pc = "built"
    /\ AsParsed
    /\ \E family \in AddedFamilies :
         LET ref == NewRef(heap)
             sub == [k \in 1..Len(family) |-> ref + k]
         IN /\ heap' = heap @@ (ref :> TrueLine(0, IdH, FAM, sub))
                            @@ [r \in Range(sub) |->
                                   TrueLine(1, family[r - ref][1], family[r - ref][2], <<>>)]
            /\ document' = [document EXCEPT !.records = DictSet(@, IdH, ref)]
    /\ UNCHANGED <<lines, from_file, warnings, line_number, parent_lines,
                   pc, strict_result, chain, cur, parents, unions, query>>

NextMut ==
    \/ BuildDicts
    \/ AppendSubLine \/ AddFamRecord
    \/ GetParents \/ GetUnions \/ GetChildrenRef \/ GetSpousesRef \/ TraverseRef

SpecMut == InitMut /\ [][NextMut]_vars

-----------------------------------------------------------------------------
(* Notions the properties share *)

\* the lines as the iterable yielded them
FedLines(ls) == [i \in 1..Len(ls) |-> Fed(ls[i])]

\* ls without its i-th line
RemoveAt(ls, i) == SubSeq(ls, 1, i - 1) \o SubSeq(ls, i + 1, Len(ls))

RECURSIVE Flatten(_)
Flatten(ss) == IF ss = <<>> THEN <<>> ELSE Head(ss) \o Flatten(Tail(ss))

\* the input text: every line followed by a newline
InputText == Flatten([i \in 1..Len(lines) |-> lines[i] \o <<"\n">>])

\* the addresses of the TrueLine objects parse has built
Objects == DOMAIN heap \ {fake_line}

\* the line number a warning carries, 0 for a DuplicateXRefWarning (it carries none)
WarningLine(w) == IF w.kind = "DuplicateXRefWarning" THEN 0 ELSE w.line_number

\* the warnings (their positions in the list) that carry line number i
WarningsAt(i) == {k \in 1..Len(warnings) : WarningLine(warnings[k]) = i}

\* the Document parse builds from ls, by value
ParsedValue(ls) == DocumentValue(parse(FedLines(ls)).heap, parse(FedLines(ls)).document)

\* the objects reachable from the Document: its records and all their sub-lines
Reachable ==
    UNION { {document.records[k].val}
            \cup Range(get_all_sub_lines(heap, document.records[k].val))
            : k \in 1..Len(document.records) }

\* whether some TrueLine holds ref in its sub_lines
Attached(ref) == \E p \in Objects : ref \in Range(heap[p].sub_lines)

-----------------------------------------------------------------------------
(* C1 *)

\* a level token in the form str() gives a non-negative int: digits, no leading zero
CanonicalLevel(tok) ==
    /\ tok # <<>>
    /\ \A i \in 1..Len(tok) : IsDigit(tok[i])
    /\ Len(tok) > 1 => tok[1] # "0"

\* a line in the form get_source renders: canonical level, no trailing whitespace
CanonicalLine(l) ==
    /\ l # <<>>
    /\ l[Len(l)] \notin Whitespace
    /\ CanonicalLevel(IF FirstSpace(l) = 0 THEN l ELSE SubSeq(l, 1, FirstSpace(l) - 1))

\* C1 as stated: whenever parse returns no warning, Document.get_source() is the
\* input text (every line followed by a newline, in source order).
C1_RoundTripEveryInput ==
    (pc = "returned" /\ warnings = <<>>)
        => DocumentSource(heap, document.records) = InputText

\* C1 amended: whenever parse returns no warning and every input line has a
\* canonical level token (decimal digits, no sign, no leading zero) and no trailing
\* whitespace, Document.get_source() is the input text.
C1_RoundTripCanonical ==
    (pc = "returned" /\ warnings = <<>> /\ \A i \in 1..Len(lines) : CanonicalLine(lines[i]))
        => DocumentSource(heap, document.records) = InputText

\* a warning-free canonical input of three lines with a line at depth 2 carrying a payload
C1_Witness ==
    /\ pc = "returned" /\ warnings = <<>>
    /\ \A i \in 1..Len(lines) : CanonicalLine(lines[i])
    /\ Len(lines) >= 3
    /\ \E r \in Objects : heap[r].level = 2 /\ heap[r].payload # <<>> /\ r \in Reachable

-----------------------------------------------------------------------------
(* C2 *)

NonFatalKinds ==
    {"EmptyLineWarning", "LineParsingWarning", "LevelParsingWarning",
     "DuplicateXRefWarning", "LevelInconsistencyWarning"}

\* C2: parse never raises, and a step that appends an EmptyLine, LineParsing,
\* LevelParsing, DuplicateXRef or LevelInconsistency warning leaves the loop running
\* (the next line of the iterable is processed).
C2_NeverRaisesAndContinues ==
    [][ /\ pc' # "raised"
        /\ ( /\ line_number' = line_number + 1
             /\ Len(warnings') > Len(warnings)
             /\ warnings'[Len(warnings')].kind \in NonFatalKinds )
           => pc' = "loop" ]_vars

\* a TrueLine was built from a line that follows two or more non-fatal warnings
C2_Witness ==
    /\ pc = "returned"
    /\ Len(warnings) >= 2
    /\ \A k \in 1..Len(warnings) : warnings[k].kind \in NonFatalKinds
    /\ \E r \in Objects : \A k \in 1..Len(warnings) :
          WarningLine(warnings[k]) # 0 /\ WarningLine(warnings[k]) < r

-----------------------------------------------------------------------------
(* C3 *)

SkipKinds == {"EmptyLineWarning", "LineParsingWarning", "LevelParsingWarning"}

\* C3: a line that got an EmptyLine, LineParsing or LevelParsing warning got exactly
\* that one warning, carrying its 1-based position, and the Document is the one
\* parse builds from the input without that line.
C3_SkippedLineChangesNothing ==
    \A i \in 1..Len(lines) :
        (\E k \in WarningsAt(i) : warnings[k].kind \in SkipKinds)
            => /\ Cardinality(WarningsAt(i)) = 1
               /\ DocumentValue(heap, document) = ParsedValue(RemoveAt(lines, i))

\* a skipped line between a record and its sub-line
C3_Witness ==
    /\ Len(lines) >= 3
    /\ \E k \in WarningsAt(2) : warnings[k].kind \in SkipKinds
    /\ 1 \in Objects /\ 3 \in Objects /\ 3 \in Range(heap[1].sub_lines)

-----------------------------------------------------------------------------
(* C4 *)

\* C4: the line that is one character long (and not blank) gets a
\* CharacterInsteadOfLine warning with its line number and parse stops there: the
\* warning is the last of the list, no further line is taken, and the Document is the
\* one built from the lines before it.
C4_CharacterWarningStopsParse ==
    /\ \A k \in 1..Len(warnings) :
          warnings[k].kind = "CharacterInsteadOfLineWarning"
            => /\ k = Len(warnings)
               /\ warnings[k].line_number = Len(lines)
               /\ line_number = Len(lines)
               /\ pc \in {"break", "returned", "strict"}
               /\ Len(Fed(lines[Len(lines)])) = 1
               /\ DocumentValue(heap, document)
                    = ParsedValue(SubSeq(lines, 1, Len(lines) - 1))
    /\ \A i \in 1..Len(lines) :
          (Len(Fed(lines[i])) = 1 /\ Fed(lines[i])[1] \notin Whitespace)
            => /\ i = Len(lines)
               /\ warnings # <<>>
               /\ warnings[Len(warnings)] = CharacterInsteadOfLineWarning(i)

\* parse has stopped on a one-character line that follows a record and a warning
C4_Witness ==
    /\ pc = "returned"
    /\ Len(warnings) >= 2
    /\ warnings[Len(warnings)].kind = "CharacterInsteadOfLineWarning"
    /\ Len(document.records) >= 1

-----------------------------------------------------------------------------
(* C5 *)

\* the level-0 TrueLines parse built with tag t, and the identifiers so met
Occurrences(t) == {r \in Objects : heap[r].level = 0 /\ heap[r].tag = t}
Level0Tags == {heap[r].tag : r \in {o \in Objects : heap[o].level = 0}}
LastOccurrence(t) == CHOOSE r \in Occurrences(t) : \A o \in Occurrences(t) : o <= r

\* C5: an identifier met n times at level 0 got n - 1 DuplicateXRef warnings carrying
\* it (and no other identifier got one); the Document holds under it the record of the
\* last occurrence, all of whose sub-lines came after that occurrence; no earlier
\* occurrence and no sub-line of one is reachable from the Document.
C5_DuplicateLastWriteWins ==
    /\ \A k \in 1..Len(warnings) :
          warnings[k].kind = "DuplicateXRefWarning" => warnings[k].xref \in Level0Tags
    /\ \A t \in Level0Tags :
          /\ Cardinality({k \in 1..Len(warnings) : warnings[k] = DuplicateXRefWarning(t)})
                = Cardinality(Occurrences(t)) - 1
          /\ get_record(document, t) = LastOccurrence(t)
          /\ \A s \in Range(get_all_sub_lines(heap, LastOccurrence(t))) :
                s > LastOccurrence(t)
          /\ \A e \in Occurrences(t) \ {LastOccurrence(t)} :
                /\ e \notin Reachable
                /\ \A s \in Range(get_all_sub_lines(heap, e)) : s \notin Reachable

\* an identifier met twice, whose first record had a sub-line
C5_Witness ==
    /\ pc = "returned"
    /\ \E t \in Level0Tags : \E e \in Occurrences(t) :
          e # LastOccurrence(t) /\ heap[e].sub_lines # <<>>

-----------------------------------------------------------------------------
(* C6, C7, C8 *)

\* the locals of parse when it reaches line i
StateBefore(i) == parse(FedLines(SubSeq(lines, 1, i - 1)))

\* the positions on the stack of st of the open ancestors of level below `level`
OpenAncestors(st, level) ==
    {k \in 1..Len(st.parent_lines) : st.heap[st.parent_lines[k]].level < level}

\* the nearest of them: the one highest on the stack
NearestOpenAncestor(st, level) ==
    st.parent_lines[CHOOSE k \in OpenAncestors(st, level) :
                        \A j \in OpenAncestors(st, level) : j <= k]

\* the line built from line i had no open ancestor of smaller level
Orphan(i) == OpenAncestors(StateBefore(i), heap[i].level) = {}

Inconsistent == {WarningLine(warnings[k]) :
                    k \in {j \in 1..Len(warnings) : warnings[j].kind = "LevelInconsistencyWarning"}}

RecordReplaced(i) ==
    \E r \in Objects : \E r2 \in Objects :
        /\ heap[r].level = 0 /\ heap[r2].level = 0 /\ heap[r].tag = heap[r2].tag
        /\ i \in Range(get_all_sub_lines(heap, r))
        /\ i < r2

C8_SkippedLevelAttachedWithWarning ==
    [][ ( /\ pc = "loop" /\ line_number' = line_number + 1
          /\ line_number' \in DOMAIN heap'
          /\ OpenAncestors(State, heap'[line_number'].level) # {}
          /\ heap[NearestOpenAncestor(State, heap'[line_number'].level)].level
                # heap'[line_number'].level - 1 )
        => LET n   == line_number'
               anc == NearestOpenAncestor(State, heap'[n].level)
           IN /\ heap'[anc].sub_lines = Append(heap[anc].sub_lines, n)
              /\ parent_lines' # <<>>
              /\ parent_lines'[Len(parent_lines')] = n
              /\ parent_lines'[Len(parent_lines') - 1] = anc
              /\ warnings' = Append(warnings,
                                    LevelInconsistencyWarning(n, Fed(lines'[n]))) ]_vars

\* a level-2 line directly under a level-0 record, warned about and on top of the stack
C8_Witness ==
    /\ pc = "loop"
    /\ \E i \in Inconsistent :
          /\ ~Orphan(i)
          /\ parent_lines # <<>> /\ parent_lines[Len(parent_lines)] = i
          /\ \E p \in Objects : i \in Range(heap[p].sub_lines) /\ heap[p].level = 0
                                /\ heap[i].level = 2

-----------------------------------------------------------------------------
(* C9 *)

-----------------------------------------------------------------------------
(* C10 *)

\* every read operation on the line ref gives the sentinel, an empty list or an empty string
ReadsNothing(ref) ==
    /\ ~Bool(heap, ref)
    /\ heap[ref].payload = <<>>
    /\ Iter(heap, ref) = <<>>
    /\ get_all_sub_lines(heap, ref) = <<>>
    /\ get_source(heap, ref) = <<>>
    /\ \A t \in Tags :
          /\ get_sub_line(heap, ref, t) = fake_line
          /\ get_sub_lines(heap, ref, t) = <<>>
          /\ get_sub_line_payload(heap, ref, t) = <<>>

\* C10: a chain of reads that starts with the lookup of an identifier the Document
\* does not hold is at the sentinel after the lookup and after every get_sub_line,
\* and every read operation on what it holds gives the sentinel, an empty list or
\* an empty string; the sentinel itself is as it was created.
C10_SentinelSafety ==
    /\ (chain # <<>> /\ chain[1].arg \notin Keys(document.records)) => cur = fake_line
    /\ heap[fake_line] = FakeLine
    /\ (chain # <<>> /\ cur = fake_line) => ReadsNothing(cur)

\* a chain of three reads from an absent identifier, on a Document that holds records
\* with sub-lines
C10_Witness ==
    /\ Len(chain) >= 3
    /\ chain[1].arg \notin Keys(document.records)
    /\ \E k \in 1..Len(document.records) : heap[document.records[k].val].sub_lines # <<>>

-----------------------------------------------------------------------------
(* Notions the properties of the FamilyLink share *)

\* a call of `op` has returned or raised
CalledOp(op) == pc = "called" /\ query.op = op

\* the FAM records of the Document, in the order of its dict
FamRecords ==
    SelectSeq([k \in 1..Len(document.records) |-> document.records[k].val],
              LAMBDA r : heap[r].payload = FAM)

\* the positions in fam of the sub-lines of tag `tag` that name someone (not void)
Naming(fam, tag) ==
    {k \in 1..Len(heap[fam].sub_lines) :
        /\ heap[heap[fam].sub_lines[k]].tag = tag
        /\ heap[heap[fam].sub_lines[k]].payload # VOID}

\* the identifier the k-th sub-line of fam names
NameAt(fam, k) == heap[heap[fam].sub_lines[k]].payload

\* the identifiers the CHIL sub-lines of fam name, as a list and as a set
ChildList(fam) ==
    LET at == SelectSeq([k \in 1..Len(heap[fam].sub_lines) |-> k],
                        LAMBDA k : k \in Naming(fam, CHIL))
    IN [i \in 1..Len(at) |-> NameAt(fam, at[i])]
ChildSet(fam) == {NameAt(fam, k) : k \in Naming(fam, CHIL)}

Last(S) == CHOOSE k \in S : \A j \in S : j <= k

\* the record the HUSB (or WIFE) of fam names, the sentinel when fam has none; of
\* several sub-lines of the tag, the last
PartnerNamed(fam, tag) ==
    IF Naming(fam, tag) = {} THEN fake_line
    ELSE get_record(document, NameAt(fam, Last(Naming(fam, tag))))

-----------------------------------------------------------------------------
(* C11 *)

\* the positions in FamRecords of the families that list c as a child
FamiliesOfChild(c) == {k \in 1..Len(FamRecords) : c \in ChildSet(FamRecords[k])}

\* C11: get_parents(c) returns, for c named by a non-void CHIL sub-line of a FAM
\* record and of no later FAM record, the pair (record named by that family's HUSB
\* or the sentinel, record named by its WIFE or the sentinel), wherever the CHIL,
\* HUSB and WIFE sub-lines stand in the family; for c a child in no family it
\* returns (sentinel, sentinel).
C11_ParentsOfChild ==
    CalledOp("get_parents")
        => LET c == query.args[1] IN
           /\ query.outcome = "return"
           /\ IF FamiliesOfChild(c) = {}
              THEN query.value = <<fake_line, fake_line>>
              ELSE LET fam == FamRecords[Last(FamiliesOfChild(c))]
                   IN query.value = <<PartnerNamed(fam, HUSB), PartnerNamed(fam, WIFE)>>

\* get_parents of a child of two families, answered from the later one, which names
\* another father; in the earlier one the CHIL sub-line stands before the WIFE sub-line
C11_Witness ==
    /\ CalledOp("get_parents")
    /\ Cardinality(FamiliesOfChild(query.args[1])) = 2
    /\ Bool(heap, query.value[1])
    /\ LET first == FamRecords[1]
           last  == FamRecords[2]
       IN /\ PartnerNamed(first, HUSB) # PartnerNamed(last, HUSB)
          /\ Bool(heap, PartnerNamed(first, WIFE))
          /\ \E k \in Naming(first, CHIL) : \E j \in Naming(first, WIFE) : k < j

-----------------------------------------------------------------------------
(* C12 *)

\* the positions in fam of the HUSB and WIFE sub-lines that name p
NamingPartner(fam, p) ==
    {k \in Naming(fam, HUSB) \cup Naming(fam, WIFE) : NameAt(fam, k) = p}

\* xs, n times
RECURSIVE Repeat(_, _)
Repeat(xs, n) == IF n = 0 THEN <<>> ELSE xs \o Repeat(xs, n - 1)

\* the child lists of the families fams, the k-th taken times[k] times
RECURSIVE ChildLists(_, _)
ChildLists(fams, times) ==
    IF fams = <<>> THEN <<>>
    ELSE Repeat(ChildList(Head(fams)), Head(times)) \o ChildLists(Tail(fams), Tail(times))

\* C12 as stated: get_children_ref(p) is the list of the payloads of the non-void CHIL
\* sub-lines, family after family and in sub-line order, of every FAM record in which
\* a HUSB or WIFE sub-line names p; the void placeholder is not in the result and is
\* no key of the parents index.
C12_ChildrenOfEveryUnion ==
    /\ VOID \notin Keys(parents)
    /\ CalledOp("get_children_ref")
          => /\ query.outcome = "return"
             /\ VOID \notin Range(query.value)
             /\ query.value
                  = ChildLists(FamRecords,
                      [k \in 1..Len(FamRecords) |->
                          IF NamingPartner(FamRecords[k], query.args[1]) = {} THEN 0 ELSE 1])

\* C12 amended: get_children_ref(p) is the list of the payloads of the non-void CHIL
\* sub-lines, family after family and in sub-line order, of the FAM records in which
\* a HUSB or WIFE sub-line names p, the list of a family taken once for each of its
\* HUSB and WIFE sub-lines that name p; the void placeholder is not in the result and
\* is no key of the parents index.
C12_ChildrenOncePerPartnerLine ==
    /\ VOID \notin Keys(parents)
    /\ CalledOp("get_children_ref")
          => /\ query.outcome = "return"
             /\ VOID \notin Range(query.value)
             /\ query.value
                  = ChildLists(FamRecords,
                      [k \in 1..Len(FamRecords) |->
                          Cardinality(NamingPartner(FamRecords[k], query.args[1]))])

\* get_children_ref of a partner of two families, the first of which has a void child
\* sub-line before the sub-line of a child
C12_Witness ==
    /\ CalledOp("get_children_ref")
    /\ Len(FamRecords) = 2
    /\ \A k \in 1..2 : NamingPartner(FamRecords[k], query.args[1]) # {}
    /\ Len(query.value) >= 2
    /\ \E k \in 1..Len(heap[FamRecords[1]].sub_lines) : \E j \in Naming(FamRecords[1], CHIL) :
          /\ k < j
          /\ heap[heap[FamRecords[1]].sub_lines[k]].tag = CHIL
          /\ heap[heap[FamRecords[1]].sub_lines[k]].payload = VOID

-----------------------------------------------------------------------------
(* C13 *)

\* the identifiers of the present parents get_parents gives for p
PresentParents(p) ==
    {heap[q].tag : q \in {r \in Range(get_parents(Self, p)) : Bool(heap, r)}}

\* C13: for every person p and every present parent q that get_parents(p) gives, p is
\* an element of traverse_ref(q, 0, 1).
C13_ChildAmongChildrenOfParent ==
    (CalledOp("traverse_ref") /\ query.args[2] = 0 /\ query.args[3] = 1)
        => \A p \in People :
              query.args[1] \in PresentParents(p) => p \in Range(query.value)

-----------------------------------------------------------------------------
(* C14 *)

\* the Document records one union, and child_a and child_b are two children of it
TwoChildrenOfTheOnlyUnion(child_a, child_b) ==
    /\ Len(FamRecords) = 1
    /\ child_a # child_b
    /\ {child_a, child_b} \subseteq ChildSet(FamRecords[1])

\* C14 as stated: for two children child_a and child_b of the same union, with no
\* other union recorded, get_by_degree_ref(child_a, 1) contains child_b and does not
\* contain child_a.
C14_SiblingAtDegreeOne ==
    (CalledOp("get_by_degree_ref") /\ query.args[2] = 1)
        => \A child_b \in People :
              TwoChildrenOfTheOnlyUnion(query.args[1], child_b)
                => /\ child_b \in Range(query.value)
                   /\ query.args[1] \notin Range(query.value)

\* C14 amended: for two children child_a and child_b of the same union, with no
\* other union recorded, where a HUSB or WIFE sub-line of the union names a person
\* and none names child_a, get_by_degree_ref(child_a, 2) contains child_b and does
\* not contain child_a.
C14_SiblingAtDegreeTwo ==
    (CalledOp("get_by_degree_ref") /\ query.args[2] = 2)
        => \A child_b \in People :
              ( /\ TwoChildrenOfTheOnlyUnion(query.args[1], child_b)
                /\ Naming(FamRecords[1], HUSB) \cup Naming(FamRecords[1], WIFE) # {}
                /\ NamingPartner(FamRecords[1], query.args[1]) = {} )
                => /\ child_b \in Range(query.value)
                   /\ query.args[1] \notin Range(query.value)

\* get_by_degree_ref(child_a, 2) on the only union of a Document, which names a wife
\* and two children, gave child_b
C14_Witness ==
    /\ CalledOp("get_by_degree_ref") /\ query.args[2] = 2
    /\ \E child_b \in People :
          TwoChildrenOfTheOnlyUnion(query.args[1], child_b) /\ child_b \in Range(query.value)
    /\ Naming(FamRecords[1], WIFE) # {}
    /\ NamingPartner(FamRecords[1], query.args[1]) = {}
    /\ query.order = "last met"

-----------------------------------------------------------------------------
(* C15 *)

\* traverse_ref(indi, ascent, degree - ascent) for ascent = from, ..., degree, one
\* after the other
RECURSIVE TraversalsOfDegree(_, _, _, _)
TraversalsOfDegree(order, indi, degree, from) ==
    IF from > degree THEN <<>>
    ELSE traverse_ref(Self, order, indi, from, degree - from)
            \o TraversalsOfDegree(order, indi, degree, from + 1)

\* C15: get_by_degree_ref(p, n) is the concatenation, for ascent = 0, 1, ..., n in
\* that order, of traverse_ref(p, ascent, n - ascent), and get_by_degree_ref(p, 0)
\* is [p].
C15_ByDegreeIsConcatenation ==
    CalledOp("get_by_degree_ref")
        => /\ query.outcome = "return"
           /\ query.value
                = TraversalsOfDegree(query.order, query.args[1], query.args[2], 0)
           /\ query.args[2] = 0 => query.value = <<query.args[1]>>

\* get_by_degree_ref(p, 2) gave someone two generations up and someone one up and
\* one down
C15_Witness ==
    /\ CalledOp("get_by_degree_ref") /\ query.args[2] = 2
    /\ traverse_ref(Self, query.order, query.args[1], 2, 0) # <<>>
    /\ traverse_ref(Self, query.order, query.args[1], 1, 1) # <<>>
    /\ Len(query.value) >= 3

-----------------------------------------------------------------------------
(* C16 *)

\* C16: get_relatives_ref(p, g, c) is traverse_ref(p, g + c, c) when g >= 0 and
\* traverse_ref(p, c, -g + c) when g < 0.
C16_RelativesIsTraversal ==
    CalledOp("get_relatives_ref")
        => LET p == query.args[1]
               g == query.args[2]
               c == query.args[3]
           IN /\ query.outcome = "return"
              /\ g >= 0 => query.value = traverse_ref(Self, query.order, p, g + c, c)
              /\ g < 0 => query.value = traverse_ref(Self, query.order, p, c, (0 - g) + c)

\* get_relatives_ref(p, -1, 1) gave the children of a sibling of p
C16_Witness ==
    /\ CalledOp("get_relatives_ref")
    /\ query.args[2] < 0 /\ query.args[3] > 0
    /\ query.value # <<>>

-----------------------------------------------------------------------------
(* C17 *)

\* the calls C17 names
ResolverQueries ==
    {"get_parents", "get_unions", "get_unions_with", "get_children_ref",
     "get_children_with_ref", "get_spouses_ref", "get_siblings_ref",
     "get_stepsiblings_ref", "get_all_siblings_ref", "traverse_ref", "get_by_degree_ref"}

\* C17: every resolver query called with a person identifier that has no record in
\* the Document returns (it does not raise), and what it returns is an empty
\* collection or the pair of sentinels; traverse_ref and get_by_degree_ref of
\* degree 0 give the identifier itself.
C17_MissingPersonNeverRaises ==
    ( /\ pc = "called" /\ query.op \in ResolverQueries
      /\ query.args[1] \notin Keys(document.records) )
        => /\ query.outcome = "return"
           /\ \/ query.value = <<>>
              \/ query.value = <<fake_line, fake_line>>
              \/ query.value = <<query.args[1]>>

-----------------------------------------------------------------------------
(* C18 *)

\* C18: on a Document parse gave without a warning, the constructor of FamilyLink
\* (the index build) completes without raising, whatever identifiers the HUSB, WIFE
\* and CHIL payloads of the FAM records name.
C18_ConstructorNeverRaises ==
    (warnings = <<>> /\ query.op = "__init__") => query.outcome = "return"

-----------------------------------------------------------------------------
(* C19, C20 *)

\* the family records the unions index holds for the parents get_parents gives for p
UnionsOfParents(p) ==
    UNION {Range(get_unions(Self, q)) : q \in PresentParents(p)}

\* the family p's first FAMC sub-line names (its direct-sibling family), the sentinel
\* when p has no record, no FAMC sub-line, or one that names no record
SiblingFamily(p) ==
    get_record(document, get_sub_line_payload(heap, get_record(document, p), FAMC))

\* C19: get_stepsiblings_ref(p) returns children of the unions of the resolved
\* parents of p only, and never p itself nor a child of p's direct-sibling family
\* (the family p's FAMC sub-line names).
C19_StepsiblingsApartFromSiblings ==
    (CalledOp("get_stepsiblings_ref") /\ query.args[1] \in Keys(document.records))
        => LET p == query.args[1] IN
           /\ query.outcome = "return"
           /\ Range(query.value) \subseteq UNION {ChildSet(fam) : fam \in UnionsOfParents(p)}
           /\ p \notin Range(query.value)
           /\ Bool(heap, SiblingFamily(p))
                => Range(query.value) \cap ChildSet(SiblingFamily(p)) = {}

\* C20: for every person p of the Document, get_all_siblings_ref(p) is, as a set, the
\* union of get_siblings_ref(p) and get_stepsiblings_ref(p) with p removed.
C20_AllSiblingsIsUnion ==
    (CalledOp("get_all_siblings_ref") /\ query.args[1] \in Keys(document.records))
        => LET p == query.args[1]
               siblings == get_siblings_ref(Self, p)
               stepsiblings == get_stepsiblings_ref(Self, p)
           IN /\ siblings.outcome = "return"
              /\ stepsiblings.outcome = "return"
              /\ Range(query.value)
                    = (Range(siblings.value) \cup Range(stepsiblings.value)) \ {p}

-----------------------------------------------------------------------------
(* C21 *)

\* C21: every sub-line of a line has a level strictly greater than the level of that
\* line, and that line was, when parse reached the sub-line, the nearest open
\* ancestor: the entry highest on the stack among those of a smaller level.
C21_TreeShape ==
    \A p \in Objects : \A k \in 1..Len(heap[p].sub_lines) :
        LET i == heap[p].sub_lines[k] IN
        /\ heap[i].level > heap[p].level
        /\ OpenAncestors(StateBefore(i), heap[i].level) # {}
        /\ NearestOpenAncestor(StateBefore(i), heap[i].level) = p

\* a returned Document with a sub-line that was appended after the stack was popped:
\* its parent was not the top of the stack when parse reached it
C21_Witness ==
    /\ pc = "returned"
    /\ \E p \in Reachable : \E i \in Range(heap[p].sub_lines) :
          LET before == StateBefore(i).parent_lines
          IN before # <<>> /\ before[Len(before)] # p

-----------------------------------------------------------------------------
(* C26 *)

\* the level-0 line parse built last
LastRecordParsed == Last({r \in Objects : heap[r].level = 0})

\* C26: after any line, the levels on the stack of ancestors increase strictly from
\* bottom to top, its bottom element is the level-0 line parsed last, every other
\* element is the last sub-line of the element beneath it, and, when no line parsed so
\* far has a negative level, the stack is not empty once a level-0 line was parsed.
C26_AncestorStack ==
    /\ \A k \in 1..(Len(parent_lines) - 1) :
          /\ heap[parent_lines[k]].level < heap[parent_lines[k + 1]].level
          /\ heap[parent_lines[k]].sub_lines # <<>>
          /\ heap[parent_lines[k]].sub_lines[Len(heap[parent_lines[k]].sub_lines)]
                = parent_lines[k + 1]
    /\ parent_lines # <<>>
          => heap[parent_lines[1]].level = 0 /\ parent_lines[1] = LastRecordParsed
    /\ ( /\ \A r \in Objects : heap[r].level >= 0
         /\ \E r \in Objects : heap[r].level = 0 )
          => parent_lines # <<>>

\* after three lines of non-negative levels, a stack of two lines whose top took the
\* place of the line the third line popped
C26_Witness ==
    /\ Len(lines) = 3 /\ Len(parent_lines) = 2
    /\ \A r \in Objects : heap[r].level >= 0
    /\ Len(StateBefore(3).parent_lines) = 2
    /\ StateBefore(3).parent_lines # parent_lines

-----------------------------------------------------------------------------
(* C27 *)

-----------------------------------------------------------------------------
(* C29 *)

\* the first level-0 line parse built with tag t
FirstOccurrence(t) == CHOOSE r \in Occurrences(t) : \A o \in Occurrences(t) : r <= o

\* C29: iterating over the Document yields one record for each identifier met at level
\* 0, in the order of the first occurrences of the identifiers in the input, each
\* record being the line of the last occurrence of its identifier; get_source renders
\* the records in that order.
C29_RecordOrder ==
    LET recs == DocumentIter(document) IN
    /\ Len(recs) = Cardinality(Level0Tags)
    /\ \A k \in 1..Len(recs) : recs[k] = LastOccurrence(heap[recs[k]].tag)
    /\ \A k \in 1..Len(recs) : \A j \in 1..Len(recs) :
          k < j => FirstOccurrence(heap[recs[k]].tag) < FirstOccurrence(heap[recs[j]].tag)
    /\ DocumentSource(heap, document.records)
          = Flatten([k \in 1..Len(recs) |-> get_source(heap, recs[k])])

\* an identifier met twice, with the first line of another identifier in between
C29_Witness ==
    /\ pc = "returned"
    /\ \E t \in Level0Tags : \E u \in Level0Tags :
          /\ FirstOccurrence(t) < FirstOccurrence(u)
          /\ FirstOccurrence(u) < LastOccurrence(t)
          /\ DocumentIter(document) = <<LastOccurrence(t), FirstOccurrence(u)>>

-----------------------------------------------------------------------------
(* C28 *)

\* the lines iterating over a text yields (for line in f): the text cut after each
\* "\n", every line keeping its terminator
RECURSIVE TextLines(_)
TextLines(text) ==
    IF text = <<>> THEN <<>>
    ELSE LET ends == {i \in 1..Len(text) : text[i] = "\n"} IN
         IF ends = {} THEN <<text>>
         ELSE LET e == CHOOSE i \in ends : \A j \in ends : i <= j
              IN <<SubSeq(text, 1, e)>> \o TextLines(SubSeq(text, e + 1, Len(text)))

\* parse run on the lines of the text get_source gives for the Document
ParsedAgain == parse(TextLines(DocumentSource(heap, document.records)))

\* the line parse built from line i of st has a parent whose level is not its level
\* minus one
SkippedLevel(st, i) ==
    /\ i \in DOMAIN st.heap \ {fake_line}
    /\ \E p \in DOMAIN st.heap \ {fake_line} :
          /\ i \in Range(st.heap[p].sub_lines)
          /\ st.heap[p].level + 1 # st.heap[i].level

\* C28: when parse returns, parsing the lines of the text get_source gives for its
\* Document runs to the end of those lines, builds a Document equal to the first, and
\* gives no warning but LevelInconsistency warnings, each for a line attached below a
\* skipped level.
C28_ParseRenderIdempotent ==
    pc = "returned"
        => /\ ParsedAgain.pc = "loop"
           /\ DocumentValue(ParsedAgain.heap, ParsedAgain.document)
                 = DocumentValue(heap, document)
           /\ \A k \in 1..Len(ParsedAgain.warnings) :
                 /\ ParsedAgain.warnings[k].kind = "LevelInconsistencyWarning"
                 /\ SkippedLevel(ParsedAgain, ParsedAgain.warnings[k].line_number)

\* a Document built with more warnings than its text gives: the text leaves out a line
\* of the input, and still holds a line below a skipped level
C28_Witness ==
    /\ pc = "returned"
    /\ ParsedAgain.warnings # <<>>
    /\ Len(warnings) > Len(ParsedAgain.warnings)
    /\ Len(TextLines(DocumentSource(heap, document.records))) < Len(lines)

-----------------------------------------------------------------------------
(* C23 *)

\* the positions, in the order iterating over the Document gives, of the FAM records
\* that name c in a CHIL sub-line
ListedAsChild(c) ==
    {k \in 1..Len(DocumentIter(document)) :
        /\ heap[DocumentIter(document)[k]].payload = FAM
        /\ c \in ChildSet(DocumentIter(document)[k])}

\* the (father, mother) pair of a FAM record
PairOf(fam) == <<PartnerNamed(fam, HUSB), PartnerNamed(fam, WIFE)>>

\* C23: when several FAM records name the same child in a CHIL sub-line that is not
\* void, get_parents(child) returns the (father, mother) pair of the one of them that
\* comes last when iterating over the Document.
C23_LastUnionWins ==
    (CalledOp("get_parents") /\ Cardinality(ListedAsChild(query.args[1])) >= 2)
        => /\ query.outcome = "return"
           /\ query.value = PairOf(DocumentIter(document)[Last(ListedAsChild(query.args[1]))])

\* get_parents of a child of two FAM records with different pairs of parents
C23_Witness ==
    /\ CalledOp("get_parents")
    /\ Cardinality(ListedAsChild(query.args[1])) = 2
    /\ \E k \in ListedAsChild(query.args[1]) :
          PairOf(DocumentIter(document)[k]) # query.value

-----------------------------------------------------------------------------
(* C22 *)

\* the people `steps` generations above the people of S: the frontier of the ascent
RECURSIVE Frontier(_, _)
Frontier(S, steps) ==
    IF steps = 0 THEN S
    ELSE Frontier(UNION {PresentParents(x) : x \in S}, steps - 1)

\* last_ancestors: the frontier one step before the last ascent, the person when
\* there is no ascent
LastAncestors(indi, ascent) ==
    IF ascent = 0 THEN {indi} ELSE Frontier({indi}, ascent - 1)

\* the people reached from S by the descent steps k .. descent - 1, the people of
\* `excluded` being left out at the steps of `at`
RECURSIVE Descent(_, _, _, _, _)
Descent(S, excluded, k, descent, at) ==
    IF k >= descent THEN S
    ELSE Descent(UNION {Range(get_children_ref(Self, x)) : x \in S}
                    \ (IF k \in at THEN excluded ELSE {}),
                 excluded, k + 1, descent, at)

\* C22 as stated: the people traverse_ref(person, ascent, descent) returns are those
\* the descent reaches when the people of last_ancestors are left out on the first
\* descent step only, and only when ascent is 1.
C22_ExcludedOnFirstStepOnly ==
    CalledOp("traverse_ref")
        => LET indi    == query.args[1]
               ascent  == query.args[2]
               descent == query.args[3]
           IN Range(query.value)
                = Descent(Frontier({indi}, ascent), LastAncestors(indi, ascent), 0, descent,
                          IF ascent = 1 THEN {0} ELSE {})

\* C22 amended: the people traverse_ref(person, ascent, descent) returns are those the
\* descent reaches when the people of last_ancestors (the person itself when ascent
\* is 0) are left out on every descent step, whatever ascent is; no one else is left out.
C22_ExcludedOnEveryStep ==
    CalledOp("traverse_ref")
        => LET indi    == query.args[1]
               ascent  == query.args[2]
               descent == query.args[3]
           IN /\ query.outcome = "return"
              /\ Range(query.value)
                    = Descent(Frontier({indi}, ascent), LastAncestors(indi, ascent), 0,
                              descent, 0..(descent - 1))

\* a traversal two generations up and one down that leaves out a parent of the
\* person, who is a child of the grandparent it reached
C22_Witness ==
    /\ CalledOp("traverse_ref")
    /\ query.args[2] = 2 /\ query.args[3] = 1
    /\ query.args[1] \notin Frontier({query.args[1]}, 1)
    /\ \E q \in Frontier({query.args[1]}, 1) :
          /\ q \notin Range(query.value)
          /\ \E g \in Frontier({query.args[1]}, 2) : q \in Range(get_children_ref(Self, g))

-----------------------------------------------------------------------------
(* C24 *)

\* the identifiers a traversal can meet
Universe ==
    People \cup Keys(document.records)
           \cup UNION {ChildSet(FamRecords[k]) : k \in 1..Len(FamRecords)}

\* the sum of the values of a function
RECURSIVE Sum(_)
Sum(f) ==
    IF DOMAIN f = {} THEN 0
    ELSE LET x == CHOOSE x \in DOMAIN f : TRUE
         IN f[x] + Sum([y \in DOMAIN f \ {x} |-> f[y]])

\* how many times x stands in the list xs
Count(xs, x) == Cardinality({i \in 1..Len(xs) : xs[i] = x})

\* the steps from y up to x: the places (father, mother) of get_parents(y) that hold
\* the record of x
ParentSteps(y, x) ==
    Cardinality({s \in 1..2 : /\ Bool(heap, get_parents(Self, y)[s])
                              /\ heap[get_parents(Self, y)[s]].tag = x})

\* the steps from y down to x: in every FAM record, a HUSB or WIFE sub-line naming y
\* together with a CHIL sub-line naming x
ChildSteps(y, x) ==
    Sum([k \in 1..Len(FamRecords) |->
            Cardinality(NamingPartner(FamRecords[k], y))
                * Cardinality({c \in Naming(FamRecords[k], CHIL) : NameAt(FamRecords[k], c) = x})])

\* the function f as a table of its values, each computed once
Table(f) == f @@ <<>>

\* the persons at the end of some path
Reached(paths) == {y \in DOMAIN paths : paths[y] > 0}

\* for every x, the number of paths of `steps` steps up from indi to x
RECURSIVE PathsUp(_, _)
PathsUp(indi, steps) ==
    IF steps = 0 THEN [x \in Universe |-> IF x = indi THEN 1 ELSE 0]
    ELSE LET before == PathsUp(indi, steps - 1)
         IN Table([x \in Universe |-> Sum([y \in Reached(before) |-> before[y] * ParentSteps(y, x)])])

\* for every x, the number of paths that go on from the paths of `from` by `steps`
\* steps down to x without meeting a person of `excluded`
RECURSIVE PathsDown(_, _, _)
PathsDown(from, excluded, steps) ==
    IF steps = 0 THEN from
    ELSE LET before == PathsDown(from, excluded, steps - 1)
         IN Table([x \in Universe |->
                      IF x \in excluded THEN 0
                      ELSE Sum([y \in Reached(before) |-> before[y] * ChildSteps(y, x)])])

-----------------------------------------------------------------------------
(* C30 *)

\* C30: for every person p, traverse_ref(p, 1, 1) holds no person twice, does not hold
\* p, and holds the persons get_all_siblings_ref(p) holds, no other.
C30_TraverseOneOneIsAllSiblings ==
    (CalledOp("traverse_ref") /\ query.args[2] = 1 /\ query.args[3] = 1)
        => /\ query.outcome = "return"
           /\ \A i, j \in 1..Len(query.value) : query.value[i] = query.value[j] => i = j
           /\ query.args[1] \notin Range(query.value)
           /\ Range(query.value) = Range(get_all_siblings_ref(Self, query.args[1]))

\* traverse_ref(p, 1, 1) returns once a person that get_all_siblings_ref(p) holds twice
C30_Witness ==
    /\ CalledOp("traverse_ref") /\ query.args[2] = 1 /\ query.args[3] = 1
    /\ PresentParents(query.args[1]) # {}
    /\ Len(query.value) = 1
    /\ Count(get_all_siblings_ref(Self, query.args[1]), query.value[1]) = 2

-----------------------------------------------------------------------------
(* C25 *)

\* the FamilyLink as its constructor left it: the Document parse returned, the two dicts
Constructed == FamilyLink(parse(lines).heap, parse(lines).document, parents, unions)

\* the FamilyLink built again on the Document as it is
Rebuilt ==
    FamilyLink(heap, document, _build_dicts(heap, document).parents,
               _build_dicts(heap, document).unions)

\* what the call q recorded gives on the FamilyLink self
ResultOn(self, q) ==
    CASE q.op = "get_parents"      -> get_parents(self, q.args[1])
      [] q.op = "get_unions"       -> get_unions(self, q.args[1])
      [] q.op = "get_children_ref" -> get_children_ref(self, q.args[1])
      [] q.op = "get_spouses_ref"  -> get_spouses_ref(self, q.args[1])
      [] q.op = "traverse_ref"     -> traverse_ref(self, q.order, q.args[1], q.args[2], q.args[3])

ResolverQueriesOfIndices ==
    {"get_parents", "get_unions", "get_children_ref", "get_spouses_ref", "traverse_ref"}

\* the caller added a record to the Document; the caller appended a sub-line to a record
RecordAdded == Keys(document.records) # Keys(parse(lines).document.records)
SubLineAppended == ~AsParsed /\ ~RecordAdded

\* the sub-line the caller appended
Appended == heap[NewRef(heap) - 1]

====
